---- MODULE Spec2Model ----
(***************************************************************************)
(* Jersey template pipeline of the image processing service                *)
(* (processJerseyImage and getContentBounds) and the upload handler of     *)
(* POST /api/process-jersey.                                               *)
(*                                                                         *)
(* A buffer is a record [width, height, data] with data[y][x] the alpha    *)
(* value of the pixel in row y and column x, both counted from 0 as in     *)
(* the source.  The code reads nothing of a pixel but its alpha channel;   *)
(* in the modelled inputs a pixel's colour is determined by its alpha, so  *)
(* two pixels are equal exactly when their alpha values are.               *)
(***************************************************************************)
EXTENDS Integers, Sequences, FiniteSets, TLC

\* ------------------------------------------------------------------ bounds
MaxW == 2
MaxH == 3
MaxPixels == 6

\* Alpha levels on either side of both thresholds: 1 is content at neither
\* (as is 0, which no comparison in the code tells from 1), 5 is content at
\* threshold 1 only, 6 is content at both.
Alphas == {1, 5, 6}

\* Gaps sent by callers: the default, an overlap, touching, a positive gap.
Gaps == {-18, -2, 0, 2}

NumReqs == 2

\* ------------------------------------------------------- program constants
PreciseAlphaThreshold == 1
FallbackAlphaThreshold == 5
DefaultGap == -18

VARIABLES
    input,           \* decoded pixels of the file at inputPath
    collar,          \* the file at collarPath: absent, corrupt or decodable
    gapBetweenImages,
    pc,              \* position in processJerseyImage
    width, height,   \* the let-bound dimensions of the trimmed buffer
    trimmedBuffer,
    trimKind,        \* which branch produced trimmedBuffer
    backSide, frontSide,
    backBounds, frontBounds,
    collarBuffer, collarWidth, collarHeight, collarLeft, collarTop,
    backTop, frontTop, totalHeight,
    compositeLayers,
    output,          \* what processJerseyImage returns or throws
    uploadsDir,      \* file names in uploads/
    outputsDir,      \* file names in outputs/
    uuidsIssued,     \* how many uuidv4() values have been drawn
    reqs             \* the POST /api/process-jersey requests in flight

pipelineVars == <<input, collar, gapBetweenImages, pc, width, height,
                  trimmedBuffer, trimKind, backSide, frontSide, backBounds,
                  frontBounds, collarBuffer, collarWidth, collarHeight, collarLeft,
                  collarTop, backTop, frontTop, totalHeight, compositeLayers,
                  output>>

serverVars == <<uploadsDir, outputsDir, uuidsIssued, reqs>>

\* ----------------------------------------------------------------- buffers
Buffer(w, h, px) == [width |-> w, height |-> h, data |-> px]

EmptyBuffer == Buffer(0, 0, <<>>)

Rows(img) == 0 .. img.height - 1
Cols(img) == 0 .. img.width - 1

\* data[idx + 3] with idx = (y * info.width + x) * channels
Alpha(img, x, y) == img.data[y][x]

ImagesOf(w, h) ==
    { Buffer(w, h, px) : px \in [0 .. h - 1 -> [0 .. w - 1 -> Alphas]] }

Sizes ==
    { s \in (1 .. MaxW) \X (1 .. MaxH) : s[1] * s[2] <= MaxPixels }

BoundedImages == UNION { ImagesOf(s[1], s[2]) : s \in Sizes }

\* The end-to-end scenario: 200x300, opaque block at (50,75)-(149,224).
ScenarioImage ==
    Buffer(200, 300,
           [y \in 0 .. 299 |->
              [x \in 0 .. 199 |->
                 IF x >= 50 /\ x <= 149 /\ y >= 75 /\ y <= 224
                 THEN 255 ELSE 0]])

Collars ==
    { [state |-> "absent",  width |-> 0, height |-> 0],
      [state |-> "corrupt", width |-> 0, height |-> 0],
      [state |-> "ok",      width |-> 1, height |-> 2],
      [state |-> "ok",      width |-> 2, height |-> 5] }

\* ------------------------------------------------------- content scanning
\* Mutation: a pixel whose alpha equals the threshold counts as content.
RowHasContentInclusive(img, t, y) ==
    \E x \in Cols(img) : Alpha(img, x, y) >= t

RowHasContent(img, t, y) == \E x \in Cols(img) : Alpha(img, x, y) > t

ColHasContent(img, t, x, minY, maxY) ==
    \E y \in minY .. maxY : Alpha(img, x, y) > t

RECURSIVE ScanTop(_, _, _, _)
ScanTop(img, t, y, minY) ==
    IF y < img.height /\ minY = img.height
    THEN ScanTop(img, t, y + 1, IF RowHasContent(img, t, y) THEN y ELSE minY)
    ELSE minY

RECURSIVE ScanBottom(_, _, _, _)
ScanBottom(img, t, y, maxY) ==
    IF y >= 0 /\ maxY = 0
    THEN ScanBottom(img, t, y - 1, IF RowHasContent(img, t, y) THEN y ELSE maxY)
    ELSE maxY

RECURSIVE ScanLeft(_, _, _, _, _, _)
ScanLeft(img, t, x, minX, minY, maxY) ==
    IF x < img.width /\ minX = img.width
    THEN ScanLeft(img, t, x + 1,
                  IF ColHasContent(img, t, x, minY, maxY) THEN x ELSE minX,
                  minY, maxY)
    ELSE minX

RECURSIVE ScanRight(_, _, _, _, _, _)
ScanRight(img, t, x, maxX, minY, maxY) ==
    IF x >= 0 /\ maxX = 0
    THEN ScanRight(img, t, x - 1,
                   IF ColHasContent(img, t, x, minY, maxY) THEN x ELSE maxX,
                   minY, maxY)
    ELSE maxX

\* The four edge loops, started from the sentinels
\* minX = width, minY = height, maxX = 0, maxY = 0.
ContentScan(img, t) ==
    LET minY == ScanTop(img, t, 0, img.height)
        maxY == ScanBottom(img, t, img.height - 1, 0)
        minX == ScanLeft(img, t, 0, img.width, minY, maxY)
        maxX == ScanRight(img, t, img.width - 1, 0, minY, maxY)
    IN  [top |-> minY, bottom |-> maxY, left |-> minX, right |-> maxX,
         height |-> maxY - minY + 1, width |-> maxX - minX + 1]

\* hasContent is set by whichever loop meets a pixel above the threshold.
HasContentFlag(img, t) ==
    LET s == ContentScan(img, t)
    IN  \/ \E y \in Rows(img) : RowHasContent(img, t, y)
        \/ \E x \in Cols(img) : ColHasContent(img, t, x, s.top, s.bottom)

GetContentBounds(imageBuffer) == ContentScan(imageBuffer, PreciseAlphaThreshold)

NoBounds == [top |-> 0, bottom |-> 0, left |-> 0, right |-> 0,
             height |-> 0, width |-> 0]

\* ------------------------------------------------------------ sharp calls
\* extract({left, top, width, height})
Extract(img, left, top, w, h) ==
    Buffer(w, h, [y \in 0 .. h - 1 |-> [x \in 0 .. w - 1 |->
                     Alpha(img, x + left, y + top)]])

\* Mutation: flop(), columns reversed instead of rows.
FlipColumns(img) ==
    Buffer(img.width, img.height,
           [y \in Rows(img) |-> [x \in Cols(img) |->
              img.data[y][img.width - 1 - x]]])

\* flip(): mirror about the horizontal axis, rows reversed top to bottom.
Flip(img) ==
    Buffer(img.width, img.height,
           [y \in Rows(img) |-> img.data[img.height - 1 - y]])

\* trim({threshold: 0}) when the build applies it: borders equal to the
\* top-left pixel are removed; an image with nothing else is left as it is.
GenericTrim(img) ==
    LET bg == Alpha(img, 0, 0)
        ys == { y \in Rows(img) : \E x \in Cols(img) : Alpha(img, x, y) # bg }
        xs == { x \in Cols(img) : \E y \in Rows(img) : Alpha(img, x, y) # bg }
        Min(S) == CHOOSE m \in S : \A n \in S : m <= n
        Max(S) == CHOOSE m \in S : \A n \in S : m >= n
    IN  IF ys = {} THEN img
        ELSE Extract(img, Min(xs), Min(ys),
                     Max(xs) - Min(xs) + 1, Max(ys) - Min(ys) + 1)

\* A threshold of 0 is applied by some builds of the library and read as
\* "no trim" by others (the case the fallback below is written for).
TrimOutcomes(img) == { GenericTrim(img), img }

\* Mutation: degenerate bounds (left = right or top = bottom) are cropped.
ShouldExtractDegenerate(img) ==
    LET s == ContentScan(img, FallbackAlphaThreshold)
    IN  /\ HasContentFlag(img, FallbackAlphaThreshold)
        /\ s.left <= s.right
        /\ s.top <= s.bottom
        /\ \/ s.left > 0
           \/ s.top > 0
           \/ s.right < img.width - 1
           \/ s.bottom < img.height - 1

\* The fallback branch: whether the scanned rectangle is cropped.
ShouldExtract(img) ==
    LET s == ContentScan(img, FallbackAlphaThreshold)
    IN  /\ HasContentFlag(img, FallbackAlphaThreshold)
        /\ s.left < s.right
        /\ s.top < s.bottom
        /\ \/ s.left > 0
           \/ s.top > 0
           \/ s.right < img.width - 1
           \/ s.bottom < img.height - 1

\* Mutation: only the columns are cropped, every row is kept.
FallbackExtractColumnsOnly(img) ==
    LET s == ContentScan(img, FallbackAlphaThreshold)
    IN  Extract(img, s.left, 0, s.right - s.left + 1, img.height)

FallbackExtract(img) ==
    LET s == ContentScan(img, FallbackAlphaThreshold)
    IN  Extract(img, s.left, s.top, s.right - s.left + 1, s.bottom - s.top + 1)

\* Math.floor(n * 0.5) and Math.floor(n / 2)
HalfFloor(n) == n \div 2

\* 5. Stack jersey parts with configurable gap.
BackTopOf(bb) == 0 - bb.top

\* Mutation: the back layer's offset left out of its bottom content row.
BackBottomWithoutOffset(bTop, bb) == bb.bottom

BackBottomContentYOf(bTop, bb) == bTop + bb.bottom

\* Mutation: the front layer aligned by its buffer edge, not its content edge.
FrontTopFromBufferEdge(backBottomContentY, gap, fb) == backBottomContentY + gap

FrontTopOf(backBottomContentY, gap, fb) == backBottomContentY + gap - fb.top

\* Mutation: the canvas ends on the last content row instead of one past it.
TotalHeightWithoutLastRow(fTop, fb) == fTop + fb.bottom

TotalHeightOf(fTop, fb) == (fTop + fb.bottom) + 1

\* Mutation: the collar centred on the trimmed buffer's height, the value
\* known before the canvas height is.
CollarTopFromBufferHeight(total, cHeight) == HalfFloor(height - cHeight)

CollarTopOf(total, cHeight) == HalfFloor(total - cHeight)

Layer(name, top, left, w, h) ==
    [input |-> name, top |-> top, left |-> left, width |-> w, height |-> h]

\* create({width, height, ...}) takes positive dimensions only.
CanvasRejected(w, h) == w <= 0 \/ h <= 0

\* A layer larger than the canvas is refused by some builds of the library
\* and clipped to the canvas by others.
LayerOversize(layers, w, h) ==
    \E i \in DOMAIN layers : layers[i].width > w \/ layers[i].height > h

NoOutput == [status |-> "none", cause |-> "none", width |-> 0, height |-> 0]

\* catch (error) { throw new Error(`Image processing failed: ...`) }
Thrown(cause) ==
    [status |-> "error", cause |-> cause, width |-> 0, height |-> 0]

\* ------------------------------------------------------------- the server
Reqs == 1 .. NumReqs

\* A multipart text field: absent, or the characters sent.
Field(present, text) == [present |-> present, text |-> text]

GapFields ==
    { Field(FALSE, <<>>), Field(TRUE, <<>>), Field(TRUE, <<"0">>),
      Field(TRUE, <<"-", "3">>), Field(TRUE, <<"4", "p", "x">>),
      Field(TRUE, <<"x">>), Field(TRUE, <<"1", "2">>) }

Digits == <<"0", "1", "2", "3", "4", "5", "6", "7", "8", "9">>

IsDigit(c) == \E d \in DOMAIN Digits : Digits[d] = c

DigitValue(c) == (CHOOSE d \in DOMAIN Digits : Digits[d] = c) - 1

Number(n) == [nan |-> FALSE, value |-> n]

NaN == [nan |-> TRUE, value |-> 0]

\* The digits at the head of text, read in base 10.
RECURSIVE ReadDigits(_, _)
ReadDigits(text, acc) ==
    IF text # <<>> /\ IsDigit(Head(text))
    THEN ReadDigits(Tail(text), acc * 10 + DigitValue(Head(text)))
    ELSE acc

\* parseInt(string): an optional sign, then the leading digits; NaN when
\* there is none.
ParseInt(text) ==
    LET negative == text # <<>> /\ Head(text) = "-"
        signed == text # <<>> /\ Head(text) \in {"-", "+"}
        rest == IF signed THEN Tail(text) ELSE text
    IN  IF rest = <<>> \/ ~IsDigit(Head(rest)) THEN NaN
        ELSE Number(IF negative THEN 0 - ReadDigits(rest, 0)
                    ELSE ReadDigits(rest, 0))

\* Mutation: a gap of "0" is taken for a missing one, as the number 0 would be.
GapOfZeroFalsy(field) ==
    IF field.present /\ field.text # <<>> /\ field.text # <<"0">>
    THEN ParseInt(field.text)
    ELSE Number(DefaultGap)

\* req.body.gap ? parseInt(req.body.gap) : -18
GapOf(field) ==
    IF field.present /\ field.text # <<>>
    THEN ParseInt(field.text)
    ELSE Number(DefaultGap)

OriginalNames == {"jersey.png"}

\* `${uuidv4()}-${file.originalname}`
UploadFilename(uuid, originalname) == <<uuid, originalname>>

\* `${outputId}.png`
OutputFilename(outputId) == <<outputId, "png">>

NoFile == <<0, "">>

NewRequest ==
    [pc |-> "new", kind |-> "none", file |-> NoFile, gapField |-> Field(FALSE, <<>>),
     gap |-> Number(DefaultGap), outputId |-> 0, status |-> 0]

\* fs.unlinkSync(path) on a directory listing
Unlink(dir, path) == dir \ {path}

\* ------------------------------------------------------------ the pipeline
Init ==
    /\ input \in BoundedImages \cup {ScenarioImage}
    /\ collar \in Collars
    /\ gapBetweenImages \in Gaps
    /\ pc = "load"
    /\ width = 0
    /\ height = 0
    /\ trimmedBuffer = EmptyBuffer
    /\ trimKind = "none"
    /\ backSide = EmptyBuffer
    /\ frontSide = EmptyBuffer
    /\ backBounds = NoBounds
    /\ frontBounds = NoBounds
    /\ collarBuffer = "null"
    /\ collarWidth = 0
    /\ collarHeight = 0
    /\ collarLeft = 0
    /\ collarTop = 0
    /\ backTop = 0
    /\ frontTop = 0
    /\ totalHeight = 0
    /\ compositeLayers = <<>>
    /\ output = NoOutput
    /\ uploadsDir = {}
    /\ outputsDir = {}
    /\ uuidsIssued = 0
    /\ reqs = [r \in Reqs |-> NewRequest]

\* 1. Load and trim the input image.
Trim ==
    /\ pc = "load"
    /\ \E g \in TrimOutcomes(input) :
         IF input.width = g.width /\ input.height = g.height
         THEN IF ShouldExtract(input)
              THEN /\ trimmedBuffer' = FallbackExtract(input)
                   /\ trimKind' = "extract"
              ELSE /\ trimmedBuffer' = g
                   /\ trimKind' = "unchanged"
         ELSE /\ trimmedBuffer' = g
              /\ trimKind' = "generic"
    /\ width' = trimmedBuffer'.width
    /\ height' = trimmedBuffer'.height
    /\ pc' = "flip"
    /\ UNCHANGED <<input, collar, gapBetweenImages, backSide, frontSide,
                   backBounds, frontBounds, collarBuffer, collarWidth,
                   collarHeight, collarLeft, collarTop, backTop, frontTop,
                   totalHeight, compositeLayers, output>>
    /\ UNCHANGED serverVars

\* 2. Create flipped back version.
FlipBack ==
    /\ pc = "flip"
    /\ backSide' = Flip(trimmedBuffer)
    /\ frontSide' = trimmedBuffer
    /\ pc' = "bounds"
    /\ UNCHANGED <<input, collar, gapBetweenImages, width, height,
                   trimmedBuffer, trimKind, backBounds, frontBounds,
                   collarBuffer, collarWidth, collarHeight, collarLeft,
                   collarTop, backTop, frontTop, totalHeight,
                   compositeLayers, output>>
    /\ UNCHANGED serverVars

\* 3. Get content bounds for positioning.
MeasureBounds ==
    /\ pc = "bounds"
    /\ backBounds' = GetContentBounds(backSide)
    /\ frontBounds' = GetContentBounds(frontSide)
    /\ pc' = "collar"
    /\ UNCHANGED <<input, collar, gapBetweenImages, width, height,
                   trimmedBuffer, trimKind, backSide, frontSide,
                   collarBuffer, collarWidth, collarHeight, collarLeft,
                   collarTop, backTop, frontTop, totalHeight,
                   compositeLayers, output>>
    /\ UNCHANGED serverVars

\* 4. Load and prepare collar image (if provided).  Nothing here is caught
\* locally: a throw from metadata() or resize() reaches the outer catch.
PrepareCollar ==
    /\ pc = "collar"
    /\ IF collar.state = "absent"
       THEN /\ pc' = "stack"
            /\ UNCHANGED <<collarBuffer, collarWidth, collarHeight,
                           collarLeft, output>>
       ELSE IF collar.state = "corrupt"
       THEN /\ pc' = "error"
            /\ output' = Thrown("collar")
            /\ UNCHANGED <<collarBuffer, collarWidth, collarHeight,
                           collarLeft>>
       ELSE /\ collarWidth' = HalfFloor(collar.width)
            /\ collarHeight' = HalfFloor(collar.height)
            /\ IF collarWidth' <= 0 \/ collarHeight' <= 0
               THEN /\ pc' = "error"
                    /\ output' = Thrown("collar")
                    /\ UNCHANGED <<collarBuffer, collarLeft>>
               ELSE /\ collarBuffer' = "resized"
                    /\ collarLeft' = HalfFloor(width - collarWidth')
                    /\ pc' = "stack"
                    /\ UNCHANGED output
    /\ UNCHANGED <<input, collar, gapBetweenImages, width, height,
                   trimmedBuffer, trimKind, backSide, frontSide, backBounds,
                   frontBounds, collarTop, backTop, frontTop, totalHeight,
                   compositeLayers>>
    /\ UNCHANGED serverVars

\* 5. Stack jersey parts with configurable gap.
Stack ==
    /\ pc = "stack"
    /\ backTop' = BackTopOf(backBounds)
    /\ frontTop' = FrontTopOf(BackBottomContentYOf(backTop', backBounds),
                              gapBetweenImages, frontBounds)
    /\ totalHeight' = TotalHeightOf(frontTop', frontBounds)
    /\ collarTop' = IF collarBuffer # "null"
                    THEN CollarTopOf(totalHeight', collarHeight)
                    ELSE collarTop
    /\ compositeLayers' =
         <<Layer("backSide", backTop', 0, backSide.width, backSide.height),
           Layer("frontSide", frontTop', 0, frontSide.width, frontSide.height)>>
         \o (IF collarBuffer # "null"
             THEN <<Layer("collarBuffer", collarTop', collarLeft,
                          collarWidth, collarHeight)>>
             ELSE <<>>)
    /\ pc' = "composite"
    /\ UNCHANGED <<input, collar, gapBetweenImages, width, height,
                   trimmedBuffer, trimKind, backSide, frontSide, backBounds,
                   frontBounds, collarBuffer, collarWidth, collarHeight,
                   collarLeft, output>>
    /\ UNCHANGED serverVars

\* 6. Create final composite image.
Composite ==
    /\ pc = "composite"
    /\ IF CanvasRejected(width, totalHeight)
       THEN /\ pc' = "error"
            /\ output' = Thrown("canvas")
       ELSE \/ /\ pc' = "done"
               /\ output' = [status |-> "png", cause |-> "none",
                             width |-> width, height |-> totalHeight]
            \/ /\ LayerOversize(compositeLayers, width, totalHeight)
               /\ pc' = "error"
               /\ output' = Thrown("composite")
    /\ UNCHANGED <<input, collar, gapBetweenImages, width, height,
                   trimmedBuffer, trimKind, backSide, frontSide, backBounds,
                   frontBounds, collarBuffer, collarWidth, collarHeight,
                   collarLeft, collarTop, backTop, frontTop, totalHeight,
                   compositeLayers>>
    /\ UNCHANGED serverVars

Next ==
    \/ Trim
    \/ FlipBack
    \/ MeasureBounds
    \/ PrepareCollar
    \/ Stack
    \/ Composite

vars == <<pipelineVars, serverVars>>

Spec == Init /\ [][Next]_vars

\* ------------------------------------------------------------ properties
ContentRows(img, t) == { y \in Rows(img) : \E x \in Cols(img) : Alpha(img, x, y) > t }

ContentCols(img, t) == { x \in Cols(img) : \E y \in Rows(img) : Alpha(img, x, y) > t }

IsMin(v, S) == v \in S /\ \A n \in S : v <= n

IsMax(v, S) == v \in S /\ \A n \in S : v >= n

Measured == pc \in {"collar", "stack", "composite", "done", "error"}

Stacked ==
    \/ pc \in {"composite", "done"}
    \/ pc = "error" /\ output.cause \in {"canvas", "composite"}

\* What a scan of img at threshold t has to return: the extreme rows and
\* columns of the pixels above t, or the untouched sentinels, which are no
\* bounds of any content (top is not a row of the image).
ExactBounds(img, t, b) ==
    IF ContentRows(img, t) # {}
    THEN /\ IsMin(b.top, ContentRows(img, t))
         /\ IsMax(b.bottom, ContentRows(img, t))
         /\ IsMin(b.left, ContentCols(img, t))
         /\ IsMax(b.right, ContentCols(img, t))
    ELSE /\ b.top = img.height /\ b.bottom = 0
         /\ b.left = img.width /\ b.right = 0
         /\ ~(b.top \in Rows(img) /\ b.top <= b.bottom)

\* C1: a scan returns the minimum and maximum row and column index of the
\* pixels whose alpha is strictly above the threshold (also for content
\* touching row 0 or column 0), and a value that is no valid bounds when
\* there is no such pixel; for both thresholds the pipeline scans with.
C1_ScanReturnsExactBounds ==
    /\ \A t \in {PreciseAlphaThreshold, FallbackAlphaThreshold} :
         ExactBounds(input, t, ContentScan(input, t))
    /\ Measured => /\ ExactBounds(frontSide, PreciseAlphaThreshold, frontBounds)
                   /\ ExactBounds(backSide, PreciseAlphaThreshold, backBounds)

\* Content in row 0 only, below the top of a taller buffer, next to a pixel
\* whose alpha equals the threshold.
C1_Witness ==
    /\ pc = "collar"
    /\ frontSide.height > 1
    /\ frontBounds.top = 0 /\ frontBounds.bottom = 0 /\ frontBounds.left = 0
    /\ \E x \in Cols(frontSide) : Alpha(frontSide, x, 1) = PreciseAlphaThreshold
    /\ backBounds.top = backSide.height - 1

\* C2: the front layer's top content row in the canvas is the back layer's
\* bottom content row + gap + 1.
C2_FrontStartsOneBelowBackPlusGap ==
    (pc = "done" /\ ContentRows(trimmedBuffer, PreciseAlphaThreshold) # {})
        => frontTop + frontBounds.top
             = (backTop + backBounds.bottom) + gapBetweenImages + 1

\* C3: the layers are placed at backTop = -backBounds.top and
\* frontTop = (backTop + backBounds.bottom) + gap - frontBounds.top, and the
\* canvas asked for has the trimmed buffer's width and the height
\* frontTop + frontBounds.bottom + 1.
C3_PlacementAndCanvasSize ==
    (Stacked /\ ContentRows(trimmedBuffer, PreciseAlphaThreshold) # {})
        => /\ compositeLayers[1].top = 0 - backBounds.top
           /\ compositeLayers[2].top
                = (compositeLayers[1].top + backBounds.bottom)
                    + gapBetweenImages - frontBounds.top
           /\ backTop = compositeLayers[1].top
           /\ frontTop = compositeLayers[2].top
           /\ width = trimmedBuffer.width
           /\ totalHeight = compositeLayers[2].top + frontBounds.bottom + 1
           /\ pc = "done" => /\ output.width = trimmedBuffer.width
                             /\ output.height = totalHeight

C3_Witness ==
    /\ pc = "done"
    /\ gapBetweenImages = 2
    /\ frontBounds.top > 0
    /\ backBounds.top = 0
    /\ output.height = frontBounds.bottom - frontBounds.top + backBounds.bottom + 3

\* Canvas rows holding content of a layer placed at top.
CanvasContentRows(img, top) ==
    { top + y : y \in ContentRows(img, PreciseAlphaThreshold) }

\* C4: the canvas contains all content of both layers, for every gap: no
\* content row is above row 0 or at or below totalHeight, and the topmost
\* content row is row 0.
C4_CanvasContainsAllContent ==
    (pc = "done"
       /\ ContentRows(trimmedBuffer, PreciseAlphaThreshold) # {})
        => LET rows == CanvasContentRows(backSide, backTop)
                         \cup CanvasContentRows(frontSide, frontTop)
           IN  /\ \A r \in rows : r >= 0 /\ r < totalHeight
               /\ IsMin(0, rows)

\* The rectangle the fallback has to crop to, stated over the pixels.
FallbackCropDue ==
    LET ys == ContentRows(input, FallbackAlphaThreshold)
        xs == ContentCols(input, FallbackAlphaThreshold)
    IN  /\ ys # {}
        /\ \E l, r \in xs : l < r
        /\ \E t, b \in ys : t < b
        /\ \/ 0 \notin xs \/ input.width - 1 \notin xs
           \/ 0 \notin ys \/ input.height - 1 \notin ys

\* C5: when the generic trim leaves the dimensions as they were, the
\* fallback crops to exactly the rectangle of the pixels above threshold 5
\* if content exists, left < right, top < bottom and the rectangle is
\* smaller than the frame; otherwise the buffer and its dimensions are
\* unchanged.  No crop has a zero or negative width or height.
C5_FallbackCropsOnlyValidRectangles ==
    (trimKind \in {"extract", "unchanged"})
        => LET xs == ContentCols(input, FallbackAlphaThreshold)
               ys == ContentRows(input, FallbackAlphaThreshold)
           IN  /\ FallbackCropDue
                    => /\ trimKind = "extract"
                       /\ \E l \in xs : \E t \in ys :
                            /\ IsMin(l, xs)
                            /\ IsMin(t, ys)
                            /\ IsMax(l + width - 1, xs)
                            /\ IsMax(t + height - 1, ys)
                            /\ \A y \in 0 .. height - 1 :
                                 \A x \in 0 .. width - 1 :
                                   Alpha(trimmedBuffer, x, y)
                                     = Alpha(input, x + l, y + t)
               /\ ~FallbackCropDue
                    => /\ trimKind = "unchanged"
                       /\ trimmedBuffer = input
                       /\ width = input.width /\ height = input.height
               /\ width > 0 /\ height > 0
               /\ trimmedBuffer.width = width /\ trimmedBuffer.height = height

\* A crop by the fallback, and beside it a pixel the generic trim would keep.
C5_Witness ==
    /\ pc = "flip"
    /\ trimKind = "extract"
    /\ height = input.height - 1
    /\ width = input.width

\* C6: an input with no pixel above the scan threshold never reaches canvas
\* allocation with a height <= 0 or with placements derived from the
\* no-content bounds (top = image height, bottom = 0).
C6_NoContentNeverReachesStacking ==
    (ContentRows(input, PreciseAlphaThreshold) = {} /\ Stacked)
        => /\ totalHeight > 0
           /\ ~(frontBounds.top = frontSide.height /\ frontBounds.bottom = 0)
           /\ ~(backBounds.top = backSide.height /\ backBounds.bottom = 0)

CollarUnavailable ==
    \/ collar.state \in {"absent", "corrupt"}
    \/ HalfFloor(collar.width) <= 0
    \/ HalfFloor(collar.height) <= 0

\* C7: a collar that is missing, cannot be decoded or cannot be resized is
\* skipped: no error caused by it reaches the caller, and the composite
\* holds the back and front layers only.  Stated for inputs with content,
\* whose processing does not depend on the no-content bounds.
C7_UnavailableCollarIsSkipped ==
    (CollarUnavailable /\ ContentRows(input, PreciseAlphaThreshold) # {})
        => /\ ~(pc = "error" /\ output.cause = "collar")
           /\ pc = "done" => Len(compositeLayers) = 2

Scenario ==
    /\ input = ScenarioImage
    /\ gapBetweenImages = DefaultGap
    /\ collar.state = "absent"

\* C9: the 200x300 image with an opaque 100x150 block at (50,75)-(149,224),
\* gap -18, no collar: the canvas is 100 wide, both bounds span the same
\* 150 content rows, and the canvas is 281 high.
C9_EndToEndScenario ==
    Scenario
        => /\ pc # "error"
           /\ pc # "load" => width = 100 /\ height = 150
           /\ Measured
                => /\ frontBounds.bottom - frontBounds.top + 1 = 150
                   /\ backBounds.bottom - backBounds.top + 1 = 150
                   /\ frontBounds.height = 150 /\ backBounds.height = 150
           /\ pc \in {"composite", "done"}
                => totalHeight = frontTop + frontBounds.bottom + 1
           /\ pc = "done"
                => /\ output.status = "png"
                   /\ output.width = 100
                   /\ output.height = 281

C9_Witness == Scenario /\ pc = "done" /\ output.height = 281

\* ------------------------------------------------------ the upload handler
ServerInit ==
    /\ input = Buffer(1, 1, [y \in {0} |-> [x \in {0} |-> 6]])
    /\ collar = [state |-> "absent", width |-> 0, height |-> 0]
    /\ gapBetweenImages = DefaultGap
    /\ pc = "load"
    /\ width = 0
    /\ height = 0
    /\ trimmedBuffer = EmptyBuffer
    /\ trimKind = "none"
    /\ backSide = EmptyBuffer
    /\ frontSide = EmptyBuffer
    /\ backBounds = NoBounds
    /\ frontBounds = NoBounds
    /\ collarBuffer = "null"
    /\ collarWidth = 0
    /\ collarHeight = 0
    /\ collarLeft = 0
    /\ collarTop = 0
    /\ backTop = 0
    /\ frontTop = 0
    /\ totalHeight = 0
    /\ compositeLayers = <<>>
    /\ output = NoOutput
    /\ uploadsDir = {}
    /\ outputsDir = {}
    /\ uuidsIssued = 0
    /\ reqs = [r \in Reqs |-> NewRequest]

Respond(r, status, req) == [reqs EXCEPT ![r] = [req EXCEPT !.pc = "responded",
                                                           !.status = status]]

\* upload.single('image'): the file filter, the size limit and the disk
\* storage, then either the handler or the error handling middleware.
Upload(r) ==
    /\ reqs[r].pc = "new"
    /\ \E kind \in {"image", "nofile", "badtype", "toolarge"}, g \in GapFields,
          name \in OriginalNames :
         LET req == [reqs[r] EXCEPT !.gapField = g, !.kind = kind]
         IN  CASE kind = "image" ->
                    /\ uuidsIssued' = uuidsIssued + 1
                    /\ uploadsDir' = uploadsDir
                                       \cup {UploadFilename(uuidsIssued', name)}
                    /\ reqs' = [reqs EXCEPT ![r] =
                                  [req EXCEPT !.pc = "handler",
                                              !.file = UploadFilename(uuidsIssued', name)]]
               [] kind = "nofile" ->
                    /\ reqs' = [reqs EXCEPT ![r] = [req EXCEPT !.pc = "handler"]]
                    /\ UNCHANGED <<uploadsDir, uuidsIssued>>
               [] kind = "badtype" ->
                    \* cb(new Error(...)): no MulterError, so the middleware
                    \* answers 500
                    /\ reqs' = Respond(r, 500, req)
                    /\ UNCHANGED <<uploadsDir, uuidsIssued>>
               [] kind = "toolarge" ->
                    \* MulterError LIMIT_FILE_SIZE; the partial file is removed
                    /\ reqs' = Respond(r, 400, req)
                    /\ UNCHANGED <<uploadsDir, uuidsIssued>>
    /\ UNCHANGED <<outputsDir, pipelineVars>>

\* Mutation: the error path answers without removing the upload.
CatchWithoutCleanup(r) ==
    /\ uploadsDir' = uploadsDir
    /\ reqs' = Respond(r, 500, reqs[r])

\* catch (error): clean up the uploaded file, answer 500.
CatchAndRespond(r) ==
    /\ uploadsDir' = IF reqs[r].file # NoFile /\ reqs[r].file \in uploadsDir
                     THEN Unlink(uploadsDir, reqs[r].file)
                     ELSE uploadsDir
    /\ reqs' = Respond(r, 500, reqs[r])

\* The handler up to its first await.
HandlerStart(r) ==
    /\ reqs[r].pc = "handler"
    /\ IF reqs[r].file = NoFile
       THEN /\ reqs' = Respond(r, 400, reqs[r])
            /\ UNCHANGED uuidsIssued
       ELSE /\ uuidsIssued' = uuidsIssued + 1
            /\ reqs' = [reqs EXCEPT ![r].pc = "processing",
                                    ![r].outputId = uuidsIssued',
                                    ![r].gap = GapOf(reqs[r].gapField)]
    /\ UNCHANGED <<uploadsDir, outputsDir, pipelineVars>>

\* await processJerseyImage(...) settles; a gap of NaN never yields a canvas.
ProcessSettles(r) ==
    /\ reqs[r].pc = "processing"
    /\ \/ /\ ~reqs[r].gap.nan
          /\ reqs' = [reqs EXCEPT ![r].pc = "saving"]
          /\ UNCHANGED uploadsDir
       \/ CatchAndRespond(r)
    /\ UNCHANGED <<outputsDir, uuidsIssued, pipelineVars>>

\* await sharp(processedBuffer).toFile(outputPath) settles; then the
\* upload is unlinked and the download URL returned.
SaveSettles(r) ==
    /\ reqs[r].pc = "saving"
    /\ \/ /\ outputsDir' = outputsDir \cup {OutputFilename(reqs[r].outputId)}
          /\ IF reqs[r].file \in uploadsDir
             THEN /\ uploadsDir' = Unlink(uploadsDir, reqs[r].file)
                  /\ reqs' = Respond(r, 200, reqs[r])
             ELSE \* unlinkSync throws ENOENT
                  CatchAndRespond(r)
       \/ /\ CatchAndRespond(r)
          /\ UNCHANGED outputsDir
    /\ UNCHANGED <<uuidsIssued, pipelineVars>>

ServerNext ==
    \E r \in Reqs :
       \/ Upload(r)
       \/ HandlerStart(r)
       \/ ProcessSettles(r)
       \/ SaveSettles(r)

ServerSpec == ServerInit /\ [][ServerNext]_vars

Stored(r) == reqs[r].file # NoFile

\* C10: once a request whose upload was stored has been answered, on the
\* success path and on every error path, its uploaded file is no longer in
\* the uploads directory; and no request removes another request's file,
\* so a stored upload stays in place until its own request is answered.
C10_UploadRemovedOnEveryPath ==
    \A r \in Reqs :
       /\ (Stored(r) /\ reqs[r].pc = "responded")
             => /\ reqs[r].file \notin uploadsDir
                /\ reqs[r].status \in {200, 500}
       /\ (Stored(r) /\ reqs[r].pc # "responded")
             => reqs[r].file \in uploadsDir
       /\ \A q \in Reqs : (q # r /\ Stored(q) /\ Stored(r))
             => reqs[q].file # reqs[r].file

\* One request answered after a failure and one after success while
\* both uploads carried the same original name.
C10_Witness ==
    /\ reqs[1].pc = "responded" /\ reqs[1].status = 500 /\ Stored(1)
    /\ reqs[1].outputId # 0
    /\ reqs[2].pc = "responded" /\ reqs[2].status = 200 /\ Stored(2)
    /\ reqs[1].file[2] = reqs[2].file[2]
    /\ reqs[1].file[1] < reqs[2].file[1]
    /\ reqs[1].outputId > reqs[2].file[1]
    /\ uploadsDir = {}

\* C11: every bad request is answered with 400 (no image file, an upload
\* whose extension or MIME type is not an allowed image format, an upload
\* over 10MB), and 500 is returned only for failures during processing.
C11_BadRequestsAnswered400 ==
    \A r \in Reqs :
       reqs[r].pc = "responded"
          => /\ reqs[r].kind \in {"nofile", "badtype", "toolarge"}
                  => reqs[r].status = 400
             /\ reqs[r].status = 500
                  => /\ reqs[r].kind = "image"
                     /\ reqs[r].outputId # 0

\* The decimal numeral of an integer, as a client writes it in the field.
RECURSIVE NaturalNumeral(_)
NaturalNumeral(n) ==
    IF n < 10 THEN <<Digits[n + 1]>>
    ELSE NaturalNumeral(n \div 10) \o <<Digits[(n % 10) + 1]>>

Numeral(n) == IF n < 0 THEN <<"-">> \o NaturalNumeral(0 - n) ELSE NaturalNumeral(n)

SentIntegers == -20 .. 20

GapComputed(r) ==
    \/ reqs[r].pc \in {"processing", "saving"}
    \/ reqs[r].pc = "responded" /\ reqs[r].outputId # 0

\* C12: the gap handed to processJerseyImage is -18 when the request has no
\* gap field, and the integer sent otherwise, for every integer written in
\* the field, 0 and positive values included.
C12_GapIsDefaultOrSentInteger ==
    \A r \in Reqs :
       GapComputed(r)
          => /\ ~reqs[r].gapField.present => reqs[r].gap = Number(-18)
             /\ \A n \in SentIntegers :
                  (reqs[r].gapField.present /\ reqs[r].gapField.text = Numeral(n))
                     => reqs[r].gap = Number(n)

\* Requests that sent "0", "12" and "-3" and had them parsed.
C12_Witness ==
    /\ reqs[1].pc = "processing"
    /\ reqs[1].gapField = Field(TRUE, <<"0">>) /\ reqs[1].gap = Number(0)
    /\ reqs[2].pc = "saving"
    /\ reqs[2].gapField.text \in {<<"1", "2">>, <<"-", "3">>}
    /\ ~reqs[2].gap.nan /\ reqs[2].gap.value \in {12, -3}

\* k is the floor of n / 2.
IsHalfFloor(k, n) == 2 * k <= n /\ n <= 2 * k + 1

\* C13: when a collar layer is added its top offset is floor((H - C) / 2)
\* with H the final totalHeight and C the floor of half the collar's
\* original height; the offset is not computed before totalHeight is, and
\* the collar is composited after the back and the front layers.
C13_CollarCentredOnFinalHeight ==
    /\ pc \in {"load", "flip", "bounds", "collar", "stack"}
          => collarTop = 0 /\ compositeLayers = <<>>
    /\ (Stacked /\ collarBuffer # "null")
          => /\ collar.state = "ok"
             /\ IsHalfFloor(collarHeight, collar.height)
             /\ Len(compositeLayers) = 3
             /\ compositeLayers[1].input = "backSide"
             /\ compositeLayers[2].input = "frontSide"
             /\ compositeLayers[3].input = "collarBuffer"
             /\ compositeLayers[3].height = collarHeight
             /\ compositeLayers[3].top = collarTop
             /\ IsHalfFloor(collarTop, totalHeight - collarHeight)
             /\ pc = "done"
                  => IsHalfFloor(compositeLayers[3].top,
                                 output.height - collarHeight)
    /\ (Stacked /\ collarBuffer = "null") => Len(compositeLayers) = 2

\* A canvas with a collar whose centring rounds down, on a canvas higher
\* than the trimmed buffer.
C13_Witness ==
    /\ pc = "done"
    /\ Len(compositeLayers) = 3
    /\ collar.height = 5
    /\ collarHeight = 2
    /\ output.height = 5
    /\ height = 3
    /\ collarTop = 1

\* C14: for a trimmed buffer of height H with content at threshold 1 the
\* back bounds mirror the front bounds (backBounds.top = H-1-frontBounds.bottom,
\* backBounds.bottom = H-1-frontBounds.top), both sides have the same content
\* height h, the canvas height is 2*h + gap - 1, and it is positive exactly
\* when gap >= 2 - 2*h.
C14_BackMirrorsFrontAndHeight ==
    (Measured /\ ContentRows(trimmedBuffer, PreciseAlphaThreshold) # {})
        => LET H == trimmedBuffer.height
               h == frontBounds.bottom - frontBounds.top + 1
           IN  /\ backBounds.top = H - 1 - frontBounds.bottom
               /\ backBounds.bottom = H - 1 - frontBounds.top
               /\ backBounds.bottom - backBounds.top + 1 = h
               /\ frontBounds.height = h /\ backBounds.height = h
               /\ Stacked
                    => /\ totalHeight = 2 * h + gapBetweenImages - 1
                       /\ totalHeight > 0 <=> gapBetweenImages >= 2 - 2 * h
               /\ pc = "done" => output.height = 2 * h + gapBetweenImages - 1

\* Content in the lower two rows of a buffer of three rows, so that the back
\* layer's offset is not that of the front layer.
C14_Witness ==
    /\ pc = "done"
    /\ trimmedBuffer.height = 3
    /\ frontBounds.top = 1 /\ frontBounds.bottom = 2
    /\ backBounds.top = 0 /\ backBounds.bottom = 1
    /\ gapBetweenImages = 0
    /\ output.height = 3

\* C15: after a fallback crop (threshold 5) the bounds measured with
\* threshold 1 span the whole trimmed buffer on both sides, so backTop = 0
\* and frontTop = height - 1 + gap; padding inside the trimmed buffer occurs
\* only when the crop was skipped or the generic trim was used.
C15_FallbackCropLeavesNoPadding ==
    /\ (trimKind = "extract" /\ Measured)
          => /\ \A b \in {frontBounds, backBounds} :
                  /\ b.top = 0 /\ b.bottom = height - 1
                  /\ b.left = 0 /\ b.right = width - 1
             /\ Stacked
                  => /\ backTop = 0
                     /\ frontTop = height - 1 + gapBetweenImages
    /\ (Measured /\ \E b \in {frontBounds, backBounds} :
                       \/ b.top # 0 \/ b.bottom # height - 1
                       \/ b.left # 0 \/ b.right # width - 1)
          => trimKind \in {"unchanged", "generic"}

\* A buffer cropped by the fallback that dropped a row holding a pixel of
\* alpha 5, stacked with a positive gap.
C15_Witness ==
    /\ pc = "done"
    /\ trimKind = "extract"
    /\ height = 2 /\ input.height = 3
    /\ \E y \in Rows(input) : \E x \in Cols(input) :
         /\ \A x2 \in Cols(input) : Alpha(input, x2, y) <= FallbackAlphaThreshold
         /\ Alpha(input, x, y) > PreciseAlphaThreshold
    /\ gapBetweenImages = 2
    /\ frontTop = 3

====
